---------------------------- MODULE Spec2Model ----------------------------
(***************************************************************************)
(* Model of the emotion-aware chat core of text_classifier_extractor:      *)
(*   state/conversation.rs  ConversationManager (message log, emotion      *)
(*                          history, trend)                                *)
(*   strategy/response.rs   select_strategy                                *)
(*   agents/chat.rs         ChatAgent::build_context_prompt                *)
(*   agents/emotion.rs      EmotionDetector::analyze                       *)
(*                                                                         *)
(* Strings are sequences of text pieces (a piece is an atomic run of       *)
(* characters); f32 confidences are written in tenths; f32 averages are    *)
(* written in thirtieths, which is exact for sums of -1/0/+1 scores over   *)
(* 1, 2 or 3 entries, and 0.3 is then 9.                                   *)
(***************************************************************************)
EXTENDS Integers, Sequences, FiniteSets, TLC

(* ------------------------------ bounds -------------------------------- *)

\* longest message log explored by the manager specification
MaxMessages == 2
\* longest emotion history explored by the manager specification
MaxEmotions == 2
\* longest emotion history explored by the trend specification
MaxTrendLen == 6
\* longest history handed to the context builder
MaxCtxMessages == 7
\* longest error message (in pieces) returned by the extraction call
MaxErrLen == 3
\* most turns of the session loop that record a classification
MaxTurns == 4

(* --------------------------- data model ------------------------------- *)

\* main.rs: enum Sentiment
Sentiment == {"Positive", "Negative", "Neutral"}

\* values of the f32 confidence field, in tenths
Confidences == {5, 8}

\* main.rs: struct SentimentClassification
SentimentClassification == [sentiment : Sentiment, confidence : Confidences]

\* models/message.rs: enum MessageRole
MessageRole == {"User", "Assistant"}

\* readings of chrono::Utc::now().timestamp(), seconds since the epoch
Timestamps == {1, 2}

\* message contents: the empty string, and a text with an embedded newline
Contents == {<< >>, <<"hi", "\n", "there">>}

\* Option<SentimentClassification>
None == [some |-> FALSE]

Some(e) == [some |-> TRUE, val |-> e]

\* state/conversation.rs: enum EmotionTrend
EmotionTrend == {"Improving", "Declining", "Stable"}

\* strategy/response.rs: enum ResponseStrategy
ResponseStrategy == {"Empathetic", "Encouraging", "Neutral", "Cheerful"}

(* ------------------------- iterator helpers --------------------------- *)

\* Iterator::rev
Rev(s) == [i \in 1..Len(s) |-> s[Len(s) + 1 - i]]

Min(a, b) == IF a < b THEN a ELSE b

\* Iterator::take(n)
Take(s, n) == SubSeq(s, 1, Min(n, Len(s)))

\* Iterator::skip(n)
Skip(s, n) == SubSeq(s, Min(n, Len(s)) + 1, Len(s))

RECURSIVE Sum(_)
\* Iterator::sum::<i32>
Sum(s) == IF s = << >> THEN 0 ELSE s[1] + Sum(Tail(s))

(* ------------------------------ state --------------------------------- *)

VARIABLES
    messages,         \* ConversationState.messages
    emotion_history,  \* ConversationState.emotion_history
    started_at,       \* ConversationState.started_at
    now,              \* last reading of the wall clock
    call,             \* the operation just performed, its arguments and result
    turn              \* main's position in its loop and the locals of the turn

vars == <<messages, emotion_history, started_at, now, call, turn>>

\* the manager's state as one value
State == [messages |-> messages, emotion_history |-> emotion_history,
          started_at |-> started_at]

(* ----------------------- ConversationManager -------------------------- *)

\* ConversationManager::new
new(t) == [messages |-> << >>, emotion_history |-> << >>, started_at |-> t]

\* add_message inserting the new message at the front of the log
add_message_at_front(st, role, content, t) ==
    LET msg == [role |-> role, content |-> content, timestamp |-> t,
                emotion |-> None]
    IN  [st EXCEPT !.messages = <<msg>> \o @]

\* ConversationManager::add_message
add_message(st, role, content, t) ==
    LET msg == [role |-> role, content |-> content, timestamp |-> t,
                emotion |-> None]
    IN  [st EXCEPT !.messages = Append(@, msg)]

\* update_emotion with the history push moved inside the attachment branch
update_emotion_push_when_attached(st, emotion) ==
    LET n == Len(st.messages)
    IN  IF n > 0 /\ st.messages[n].role = "User"
        THEN [st EXCEPT !.messages[n].emotion = Some(emotion),
                        !.emotion_history = Append(@, emotion)]
        ELSE st

\* update_emotion attaching to the last message whatever its role
update_emotion_any_role(st, emotion) ==
    LET n == Len(st.messages)
        attached ==
            IF n > 0
            THEN [st.messages EXCEPT ![n].emotion = Some(emotion)]
            ELSE st.messages
    IN  [st EXCEPT !.messages = attached,
                   !.emotion_history = Append(@, emotion)]

\* update_emotion attaching to the last User message of the log, wherever it is
update_emotion_last_user_anywhere(st, emotion) ==
    LET users == {i \in 1..Len(st.messages) : st.messages[i].role = "User"}
        attached ==
            IF users # {}
            THEN LET n == CHOOSE i \in users : \A j \in users : j <= i
                 IN  [st.messages EXCEPT ![n].emotion = Some(emotion)]
            ELSE st.messages
    IN  [st EXCEPT !.messages = attached,
                   !.emotion_history = Append(@, emotion)]

\* ConversationManager::update_emotion
update_emotion(st, emotion) ==
    LET n == Len(st.messages)
        attached ==
            IF n > 0 /\ st.messages[n].role = "User"
            THEN [st.messages EXCEPT ![n].emotion = Some(emotion)]
            ELSE st.messages
    IN  [st EXCEPT !.messages = attached,
                   !.emotion_history = Append(@, emotion)]

\* the score closure with the signs of Positive and Negative exchanged
Score_signs_exchanged(e) ==
    CASE e.sentiment = "Positive" -> 0 - 1
      [] e.sentiment = "Neutral"  -> 0
      [] e.sentiment = "Negative" -> 1

\* the closure of get_recent_emotion_trend mapping a sentiment to its score
Score(e) ==
    CASE e.sentiment = "Positive" -> 1
      [] e.sentiment = "Neutral"  -> 0
      [] e.sentiment = "Negative" -> 0 - 1

\* sum as f32 / count as f32, in thirtieths
Avg30(sum, count) == (sum * 30) \div count

\* the trend over the window put back in chronological order (.rev() after
\* .take(5), as build_context_prompt does)
get_recent_emotion_trend_chronological(st) ==
    LET recent == Rev(Take(Rev(st.emotion_history), 5))
    IN  IF Len(recent) < 2 THEN "Stable"
        ELSE
        LET scores        == [i \in 1..Len(recent) |-> Score(recent[i])]
            recent_count  == Min(Len(scores), 3)
            recent_avg    == Avg30(Sum(Take(scores, recent_count)), recent_count)
            earlier_count == IF Len(scores) > 3 THEN Len(scores) - 3 ELSE 0
            earlier_avg   == IF earlier_count > 0
                             THEN Avg30(Sum(Skip(scores, recent_count)),
                                        earlier_count)
                             ELSE recent_avg
        IN  IF recent_avg > earlier_avg + 9 THEN "Improving"
            ELSE IF recent_avg < earlier_avg - 9 THEN "Declining"
            ELSE "Stable"

\* the trend with the short-history guard off by one (len < 1) and an empty
\* earlier slice averaged as 0.0
get_recent_emotion_trend_no_guard(st) ==
    LET recent == Take(Rev(st.emotion_history), 5)
    IN  IF Len(recent) < 1 THEN "Stable"
        ELSE
        LET scores        == [i \in 1..Len(recent) |-> Score(recent[i])]
            recent_count  == Min(Len(scores), 3)
            recent_avg    == Avg30(Sum(Take(scores, recent_count)), recent_count)
            earlier_count == IF Len(scores) > 3 THEN Len(scores) - 3 ELSE 0
            earlier_avg   == IF earlier_count > 0
                             THEN Avg30(Sum(Skip(scores, recent_count)),
                                        earlier_count)
                             ELSE 0
        IN  IF recent_avg > earlier_avg + 9 THEN "Improving"
            ELSE IF recent_avg < earlier_avg - 9 THEN "Declining"
            ELSE "Stable"

\* the trend with the sign of the first threshold slipped (- 0.3 for + 0.3)
get_recent_emotion_trend_threshold_sign(st) ==
    LET recent == Take(Rev(st.emotion_history), 5)
    IN  IF Len(recent) < 2 THEN "Stable"
        ELSE
        LET scores        == [i \in 1..Len(recent) |-> Score(recent[i])]
            recent_count  == Min(Len(scores), 3)
            recent_avg    == Avg30(Sum(Take(scores, recent_count)), recent_count)
            earlier_count == IF Len(scores) > 3 THEN Len(scores) - 3 ELSE 0
            earlier_avg   == IF earlier_count > 0
                             THEN Avg30(Sum(Skip(scores, recent_count)),
                                        earlier_count)
                             ELSE recent_avg
        IN  IF recent_avg > earlier_avg - 9 THEN "Improving"
            ELSE IF recent_avg < earlier_avg - 9 THEN "Declining"
            ELSE "Stable"

\* the trend over a window of 6 entries (.take(6))
get_recent_emotion_trend_window_six(st) ==
    LET recent == Take(Rev(st.emotion_history), 6)
    IN  IF Len(recent) < 2 THEN "Stable"
        ELSE
        LET scores        == [i \in 1..Len(recent) |-> Score(recent[i])]
            recent_count  == Min(Len(scores), 3)
            recent_avg    == Avg30(Sum(Take(scores, recent_count)), recent_count)
            earlier_count == IF Len(scores) > 3 THEN Len(scores) - 3 ELSE 0
            earlier_avg   == IF earlier_count > 0
                             THEN Avg30(Sum(Skip(scores, recent_count)),
                                        earlier_count)
                             ELSE recent_avg
        IN  IF recent_avg > earlier_avg + 9 THEN "Improving"
            ELSE IF recent_avg < earlier_avg - 9 THEN "Declining"
            ELSE "Stable"

\* the trend with the recent slice 2 entries long (min(2), saturating_sub(2))
get_recent_emotion_trend_recent_two(st) ==
    LET recent == Take(Rev(st.emotion_history), 5)
    IN  IF Len(recent) < 2 THEN "Stable"
        ELSE
        LET scores        == [i \in 1..Len(recent) |-> Score(recent[i])]
            recent_count  == Min(Len(scores), 2)
            recent_avg    == Avg30(Sum(Take(scores, recent_count)), recent_count)
            earlier_count == IF Len(scores) > 2 THEN Len(scores) - 2 ELSE 0
            earlier_avg   == IF earlier_count > 0
                             THEN Avg30(Sum(Skip(scores, recent_count)),
                                        earlier_count)
                             ELSE recent_avg
        IN  IF recent_avg > earlier_avg + 9 THEN "Improving"
            ELSE IF recent_avg < earlier_avg - 9 THEN "Declining"
            ELSE "Stable"

\* the trend with the Declining threshold at 0.5 (15 thirtieths) for 0.3
get_recent_emotion_trend_declining_half(st) ==
    LET recent == Take(Rev(st.emotion_history), 5)
    IN  IF Len(recent) < 2 THEN "Stable"
        ELSE
        LET scores        == [i \in 1..Len(recent) |-> Score(recent[i])]
            recent_count  == Min(Len(scores), 3)
            recent_avg    == Avg30(Sum(Take(scores, recent_count)), recent_count)
            earlier_count == IF Len(scores) > 3 THEN Len(scores) - 3 ELSE 0
            earlier_avg   == IF earlier_count > 0
                             THEN Avg30(Sum(Skip(scores, recent_count)),
                                        earlier_count)
                             ELSE recent_avg
        IN  IF recent_avg > earlier_avg + 9 THEN "Improving"
            ELSE IF recent_avg < earlier_avg - 15 THEN "Declining"
            ELSE "Stable"

\* ConversationManager::get_recent_emotion_trend
get_recent_emotion_trend(st) ==
    LET recent == Take(Rev(st.emotion_history), 5)
    IN  IF Len(recent) < 2 THEN "Stable"
        ELSE
        LET scores        == [i \in 1..Len(recent) |-> Score(recent[i])]
            recent_count  == Min(Len(scores), 3)
            recent_avg    == Avg30(Sum(Take(scores, recent_count)), recent_count)
            earlier_count == IF Len(scores) > 3 THEN Len(scores) - 3 ELSE 0
            earlier_avg   == IF earlier_count > 0
                             THEN Avg30(Sum(Skip(scores, recent_count)),
                                        earlier_count)
                             ELSE recent_avg
        IN  IF recent_avg > earlier_avg + 9 THEN "Improving"
            ELSE IF recent_avg < earlier_avg - 9 THEN "Declining"
            ELSE "Stable"

\* ConversationManager::get_history
get_history(st) == st.messages

(* ------------------------------ actions ------------------------------- *)

Init ==
    /\ \E t \in Timestamps :
          /\ now = t
          /\ messages = new(t).messages
          /\ emotion_history = new(t).emotion_history
          /\ started_at = new(t).started_at
    /\ call = [op |-> "new"]
    /\ turn = [pc |-> "read"]

\* a caller appends a message, reading the clock
AddMessage(maxLen) ==
    /\ Len(messages) < maxLen
    /\ \E role \in MessageRole, content \in Contents, t \in {u \in Timestamps : u >= now} :
          LET st == add_message(State, role, content, t)
          IN  /\ messages' = st.messages
              /\ emotion_history' = st.emotion_history
              /\ started_at' = st.started_at
              /\ now' = t
              /\ call' = [op |-> "add_message", role |-> role,
                          content |-> content]
    /\ UNCHANGED turn

\* a caller records a classification
UpdateEmotion(maxLen) ==
    /\ Len(emotion_history) < maxLen
    /\ \E emotion \in SentimentClassification :
          LET st == update_emotion(State, emotion)
          IN  /\ messages' = st.messages
              /\ emotion_history' = st.emotion_history
              /\ started_at' = st.started_at
              /\ call' = [op |-> "update_emotion", emotion |-> emotion]
    /\ UNCHANGED <<now, turn>>

\* a caller asks for the trend
GetRecentEmotionTrend ==
    /\ call' = [op |-> "get_recent_emotion_trend",
                val |-> get_recent_emotion_trend(State)]
    /\ UNCHANGED <<messages, emotion_history, started_at, now, turn>>

\* a caller reads the log
GetHistory ==
    /\ call' = [op |-> "get_history", val |-> get_history(State)]
    /\ UNCHANGED <<messages, emotion_history, started_at, now, turn>>

(* ------------------------- strategy selector -------------------------- *)

\* values of the confidence argument handed to the selector, in tenths
SelectorConfidences == 0..10

\* select_strategy with the (Negative, Stable) arm missing
select_strategy_arm_missing(emotion, trend) ==
    IF emotion.sentiment = "Negative" /\ trend = "Declining" THEN "Empathetic"
    ELSE IF emotion.sentiment = "Positive" THEN "Cheerful"
    ELSE "Neutral"

\* strategy/response.rs: select_strategy (the match arms in their order)
select_strategy(emotion, trend) ==
    IF emotion.sentiment = "Negative" /\ trend = "Declining" THEN "Empathetic"
    ELSE IF emotion.sentiment = "Negative" /\ trend = "Stable" THEN "Encouraging"
    ELSE IF emotion.sentiment = "Positive" THEN "Cheerful"
    ELSE "Neutral"

\* a caller selects the strategy for a classification and a trend
SelectStrategy ==
    /\ \E emotion \in [sentiment : Sentiment, confidence : SelectorConfidences],
          trend \in EmotionTrend :
          call' = [op |-> "select_strategy", emotion |-> emotion,
                   trend |-> trend, val |-> select_strategy(emotion, trend)]
    /\ UNCHANGED <<messages, emotion_history, started_at, now, turn>>

(* ---------------------------- chat agent ------------------------------ *)

RECURSIVE push_messages(_, _)
\* the loop of build_context_prompt: one push_str per message, in the order
\* the iterator yields them
push_messages(context, msgs) ==
    IF msgs = << >> THEN context
    ELSE LET msg  == Head(msgs)
             role == IF msg.role = "User" THEN "User" ELSE "Assistant"
         IN  push_messages(context \o <<role, ": ">> \o msg.content \o <<"\n">>,
                           Tail(msgs))

\* build_context_prompt iterating over the first 5 messages (.take(5) with no
\* .rev() around it)
build_context_prompt_first_five(history) ==
    IF history = << >> THEN <<"This is a new conversation.">>
    ELSE push_messages(<<"Recent conversation:", "\n">>, Take(history, 5))

\* ChatAgent::build_context_prompt
build_context_prompt(history) ==
    IF history = << >> THEN <<"This is a new conversation.">>
    ELSE push_messages(<<"Recent conversation:", "\n">>,
                       Rev(Take(Rev(history), 5)))

\* ChatAgent::respond builds the context from the manager's log
BuildContextPrompt ==
    /\ call' = [op |-> "build_context_prompt",
                val |-> build_context_prompt(get_history(State))]
    /\ UNCHANGED <<messages, emotion_history, started_at, now, turn>>

(* -------------------------- emotion detector -------------------------- *)

\* texts handed to analyze, one character per piece
Texts == {<<"h", "i">>, <<" ", "h", "i", " ", " ", " ">>,
          <<"h", "e", "l", "l", "o">>}

\* pieces of the messages of the errors the extraction call fails with
ErrPieces == {"deserialize", "expected ", "value", "timeout"}

\* the error messages, at most MaxErrLen pieces long
ErrMessages == UNION {[1..n -> ErrPieces] : n \in 1..MaxErrLen}

\* what extractor.extract(..).await returns: Ok(result) or Err(e), e known by
\* its e.to_string()
ExtractOutcomes ==
    [ok : {TRUE}, val : SentimentClassification]
        \cup [ok : {FALSE}, err : ErrMessages]

\* the whitespace characters the texts are written with
Whitespace == {" ", "\n"}

RECURSIVE trim_start(_)
\* the leading-whitespace half of str::trim
trim_start(s) ==
    IF s # << >> /\ Head(s) \in Whitespace THEN trim_start(Tail(s)) ELSE s

\* str::trim
trim(s) == Rev(trim_start(Rev(trim_start(s))))

\* str::contains for a pattern given in pieces
contains(s, pat) ==
    \E i \in 1..Len(s) :
        i + Len(pat) - 1 <= Len(s) /\ SubSeq(s, i, i + Len(pat) - 1) = pat

\* analyze downgrading only the errors whose message contains "deserialize"
analyze_deserialize_only(text, outcome) ==
    LET short == Len(trim(text)) < 5
        input_prompt == IF short
                        THEN <<"Analyze the sentiment of this very short text: ">>
                                 \o text
                        ELSE text
        system_prompt == IF short THEN "brief text analysis"
                         ELSE "sentiment analysis"
        result ==
            IF outcome.ok THEN [ok |-> TRUE, val |-> outcome.val]
            ELSE IF contains(outcome.err, <<"deserialize">>)
            THEN [ok |-> TRUE,
                  val |-> [sentiment |-> "Neutral", confidence |-> 5]]
            ELSE [ok |-> FALSE, err |-> <<"API error: ">> \o outcome.err]
    IN  [preamble |-> system_prompt, prompt |-> input_prompt, result |-> result]

\* EmotionDetector::analyze: the prompts it sends and, for the outcome of the
\* extraction call, the result it returns
analyze(text, outcome) ==
    LET short == Len(trim(text)) < 5
        input_prompt == IF short
                        THEN <<"Analyze the sentiment of this very short text: ">>
                                 \o text
                        ELSE text
        system_prompt == IF short THEN "brief text analysis"
                         ELSE "sentiment analysis"
        result ==
            IF outcome.ok THEN [ok |-> TRUE, val |-> outcome.val]
            ELSE IF \/ contains(outcome.err, <<"deserialize">>)
                    \/ contains(outcome.err, <<"expected ", "value">>)
            THEN [ok |-> TRUE,
                  val |-> [sentiment |-> "Neutral", confidence |-> 5]]
            ELSE [ok |-> FALSE, err |-> <<"API error: ">> \o outcome.err]
    IN  [preamble |-> system_prompt, prompt |-> input_prompt, result |-> result]

\* a caller has a text analysed; the extraction call returns any outcome
Analyze ==
    /\ \E text \in Texts, outcome \in ExtractOutcomes :
          LET r == analyze(text, outcome)
          IN  call' = [op |-> "analyze", text |-> text, outcome |-> outcome,
                       preamble |-> r.preamble, prompt |-> r.prompt,
                       val |-> r.result]
    /\ UNCHANGED <<messages, emotion_history, started_at, now, turn>>

(* ------------------------------- main --------------------------------- *)

\* ResponseStrategy::to_prompt, each prompt by its first sentence
to_prompt(strategy) ==
    CASE strategy = "Empathetic"  -> <<"You are an empathetic listener.">>
      [] strategy = "Encouraging" ->
             <<"You are an encouraging and positive guide.">>
      [] strategy = "Cheerful"    ->
             <<"You are a cheerful and friendly chat companion.">>
      [] strategy = "Neutral"     ->
             <<"You are a polite and professional conversational assistant.">>

\* what agent.prompt(user_input).await returns: Ok(response) or Err(e)
PromptOutcomes ==
    {[ok |-> TRUE, val |-> <<"hi", "\n", "there">>],
     [ok |-> FALSE, err |-> <<"timeout">>]}

\* ChatAgent::respond: the context and preamble it sends and, for the outcome
\* of the prompt, the result it returns
respond(user_input, strategy, history, outcome) ==
    [context  |-> build_context_prompt(history),
     preamble |-> to_prompt(strategy),
     prompt   |-> user_input,
     result   |-> IF outcome.ok THEN [ok |-> TRUE, val |-> outcome.val]
                  ELSE [ok |-> FALSE, err |-> outcome.err]]

\* the lines read from the terminal, one character per piece: end of input,
\* an empty line, a blank line, a text, and two ways of leaving
Lines == {<< >>, <<"\n">>, <<" ", "\n">>, <<"h", "i", "\n">>,
          <<"Q", "u", "i", "T", "\n">>, <<" ", "e", "x", "i", "t", " ", "\n">>}

\* what flush() and read_line() return together: the line, or an I/O error
ReadResults == [ok : {TRUE}, line : Lines] \cup {[ok |-> FALSE]}

\* the outcomes of the extraction call met in a session: three
\* classifications, a malformed response and a network failure
SessionOutcomes ==
    {[ok |-> TRUE, val |-> [sentiment |-> "Positive", confidence |-> 8]],
     [ok |-> TRUE, val |-> [sentiment |-> "Negative", confidence |-> 8]],
     [ok |-> TRUE, val |-> [sentiment |-> "Neutral", confidence |-> 5]],
     [ok |-> FALSE, err |-> <<"deserialize">>],
     [ok |-> FALSE, err |-> <<"timeout">>]}

\* u8::to_ascii_lowercase on the letters the lines are written with
to_ascii_lowercase(c) ==
    CASE c = "Q" -> "q" [] c = "U" -> "u" [] c = "I" -> "i" [] c = "T" -> "t"
      [] c = "E" -> "e" [] c = "X" -> "x" [] OTHER -> c

\* str::eq_ignore_ascii_case
eq_ignore_ascii_case(a, b) ==
    /\ Len(a) = Len(b)
    /\ \A i \in 1..Len(a) : to_ascii_lowercase(a[i]) = to_ascii_lowercase(b[i])

\* main, lines 66-81: where the loop goes with what was read
after_read(r) ==
    IF ~r.ok THEN [pc |-> "failed"]
    ELSE LET input == trim(r.line)
         IN  IF input = << >> THEN [pc |-> "read"]
             ELSE IF \/ eq_ignore_ascii_case(input, <<"q", "u", "i", "t">>)
                     \/ eq_ignore_ascii_case(input, <<"e", "x", "i", "t">>)
             THEN [pc |-> "done"]
             ELSE [pc |-> "analyze", input |-> input]

\* main, lines 83-89 with a failed analysis ending the session
after_analyze_fatal(t, result) ==
    IF result.ok
    THEN [pc |-> "add_user", input |-> t.input, emotion |-> result.val]
    ELSE [pc |-> "failed"]

\* main, lines 83-92 with line 91 (add_message) left out
after_analyze_skip_add_user(t, result) ==
    IF result.ok
    THEN [pc |-> "update_emotion", input |-> t.input, emotion |-> result.val]
    ELSE [pc |-> "read"]

\* main, lines 83-89: the match on the result of analyze
after_analyze(t, result) ==
    IF result.ok
    THEN [pc |-> "add_user", input |-> t.input, emotion |-> result.val]
    ELSE [pc |-> "read"]

\* main, lines 97-103 going on to record a reply when generation failed
after_respond_no_continue(t, result) ==
    IF result.ok
    THEN [pc |-> "add_assistant", input |-> t.input, emotion |-> t.emotion,
          trend |-> t.trend, strategy |-> t.strategy, response |-> result.val]
    ELSE [pc |-> "add_assistant", input |-> t.input, emotion |-> t.emotion,
          trend |-> t.trend, strategy |-> t.strategy, response |-> result.err]

\* main, lines 97-103: the match on the result of respond
after_respond(t, result) ==
    IF result.ok
    THEN [pc |-> "add_assistant", input |-> t.input, emotion |-> t.emotion,
          trend |-> t.trend, strategy |-> t.strategy, response |-> result.val]
    ELSE [pc |-> "read"]

\* main, lines 67-81: prompt, read a line, leave or go on
MainReadLine ==
    /\ turn.pc = "read"
    /\ \E r \in ReadResults :
          /\ after_read(r).pc = "analyze" => Len(emotion_history) < MaxTurns
          /\ turn' = after_read(r)
          /\ call' = [op |-> "read_line", result |-> r]
    /\ UNCHANGED <<messages, emotion_history, started_at, now>>

\* main, lines 83-89: classify the input
MainAnalyze ==
    /\ turn.pc = "analyze"
    /\ \E outcome \in SessionOutcomes :
          LET r == analyze(turn.input, outcome)
          IN  /\ turn' = after_analyze(turn, r.result)
              /\ call' = [op |-> "analyze", text |-> turn.input,
                          outcome |-> outcome, preamble |-> r.preamble,
                          prompt |-> r.prompt, val |-> r.result]
    /\ UNCHANGED <<messages, emotion_history, started_at, now>>

\* main, line 91: record the user's message
MainAddUser ==
    /\ turn.pc = "add_user"
    /\ \E t \in {u \in Timestamps : u >= now} :
          LET st == add_message(State, "User", turn.input, t)
          IN  /\ messages' = st.messages
              /\ emotion_history' = st.emotion_history
              /\ started_at' = st.started_at
              /\ now' = t
    /\ turn' = [turn EXCEPT !.pc = "update_emotion"]
    /\ call' = [op |-> "add_message", role |-> "User", content |-> turn.input]

\* main, line 92: record the classification
MainUpdateEmotion ==
    /\ turn.pc = "update_emotion"
    /\ LET st == update_emotion(State, turn.emotion)
       IN  /\ messages' = st.messages
           /\ emotion_history' = st.emotion_history
           /\ started_at' = st.started_at
    /\ turn' = [turn EXCEPT !.pc = "trend"]
    /\ call' = [op |-> "update_emotion", emotion |-> turn.emotion]
    /\ UNCHANGED now

\* main with line 94 placed before line 92: the trend read before this turn's
\* classification is recorded
MainTrendBeforeRecord ==
    /\ turn.pc = "trend"
    /\ LET before == [State EXCEPT !.emotion_history =
                                       SubSeq(@, 1, Len(@) - 1)]
           trend == get_recent_emotion_trend(before)
       IN  /\ turn' = [pc |-> "select", input |-> turn.input,
                       emotion |-> turn.emotion, trend |-> trend]
           /\ call' = [op |-> "get_recent_emotion_trend", val |-> trend]
    /\ UNCHANGED <<messages, emotion_history, started_at, now>>

\* main, line 94: read the trend
MainTrend ==
    /\ turn.pc = "trend"
    /\ LET trend == get_recent_emotion_trend(State)
       IN  /\ turn' = [pc |-> "select", input |-> turn.input,
                       emotion |-> turn.emotion, trend |-> trend]
           /\ call' = [op |-> "get_recent_emotion_trend", val |-> trend]
    /\ UNCHANGED <<messages, emotion_history, started_at, now>>

\* main, line 95: select the strategy
MainSelect ==
    /\ turn.pc = "select"
    /\ LET strategy == select_strategy(turn.emotion, turn.trend)
       IN  /\ turn' = [pc |-> "respond", input |-> turn.input,
                       emotion |-> turn.emotion, trend |-> turn.trend,
                       strategy |-> strategy]
           /\ call' = [op |-> "select_strategy", emotion |-> turn.emotion,
                       trend |-> turn.trend, val |-> strategy]
    /\ UNCHANGED <<messages, emotion_history, started_at, now>>

\* main, lines 97-103: generate the reply
MainRespond ==
    /\ turn.pc = "respond"
    /\ \E outcome \in PromptOutcomes :
          LET r == respond(turn.input, turn.strategy, get_history(State),
                           outcome)
          IN  /\ turn' = after_respond(turn, r.result)
              /\ call' = [op |-> "respond", context |-> r.context,
                          preamble |-> r.preamble, prompt |-> r.prompt,
                          val |-> r.result]
    /\ UNCHANGED <<messages, emotion_history, started_at, now>>

\* main, lines 105-110: record the reply, print the turn, loop
MainAddAssistant ==
    /\ turn.pc = "add_assistant"
    /\ \E t \in {u \in Timestamps : u >= now} :
          LET st == add_message(State, "Assistant", turn.response, t)
          IN  /\ messages' = st.messages
              /\ emotion_history' = st.emotion_history
              /\ started_at' = st.started_at
              /\ now' = t
    /\ turn' = [pc |-> "read"]
    /\ call' = [op |-> "add_message", role |-> "Assistant",
                content |-> turn.response]

(* -------------------------- specifications ---------------------------- *)

MgrAddMessage == AddMessage(MaxMessages)

MgrUpdateEmotion == UpdateEmotion(MaxEmotions)

\* any interleaving of the manager's four operations
NextMgr ==
    \/ MgrAddMessage
    \/ MgrUpdateEmotion
    \/ GetRecentEmotionTrend
    \/ GetHistory

SpecMgr == Init /\ [][NextMgr]_vars

TrendUpdateEmotion == UpdateEmotion(MaxTrendLen)

\* classifications recorded on a new manager, the trend read at any point
NextTrend ==
    \/ TrendUpdateEmotion
    \/ GetRecentEmotionTrend

SpecTrend == Init /\ [][NextTrend]_vars

\* the selector applied to every classification and trend
NextSelect == SelectStrategy

SpecSelect == Init /\ [][NextSelect]_vars

CtxAddMessage == AddMessage(MaxCtxMessages)

\* a log grown message by message, the context built at any point
NextCtx ==
    \/ CtxAddMessage
    \/ BuildContextPrompt

SpecCtx == Init /\ [][NextCtx]_vars

\* texts analysed under every outcome of the extraction call
NextAnalyze == Analyze

SpecAnalyze == Init /\ [][NextAnalyze]_vars

\* the session loop of main
NextMain ==
    \/ MainReadLine
    \/ MainAnalyze
    \/ MainAddUser
    \/ MainUpdateEmotion
    \/ MainTrend
    \/ MainSelect
    \/ MainRespond
    \/ MainAddAssistant

SpecMain == Init /\ [][NextMain]_vars

(* ------------------------------ claims -------------------------------- *)

\* the emotion attached to the last message of a log
LastEmotion(msgs) == msgs[Len(msgs)].emotion

\* C1: update_emotion attaches its classification to the most recent message
\* only if that message is a User message with no emotion yet; a call that
\* finds an emotion already attached leaves it as it is (first write wins),
\* and every call makes emotion_history one longer.
C1_FirstWriteWins ==
    [][call'.op = "update_emotion" =>
          /\ Len(emotion_history') = Len(emotion_history) + 1
          /\ Len(messages') = Len(messages)
          /\ Len(messages) > 0 =>
                IF messages[Len(messages)].role = "User"
                   /\ LastEmotion(messages) = None
                THEN LastEmotion(messages') = Some(call'.emotion)
                ELSE LastEmotion(messages') = LastEmotion(messages)]_vars

\* the score of a classification as the spec's table gives it
RefScore(e) ==
    IF e.sentiment = "Positive" THEN 1
    ELSE IF e.sentiment = "Negative" THEN 0 - 1 ELSE 0

RECURSIVE RefSum(_, _, _)
\* the sum of the scores of h[lo..hi]
RefSum(h, lo, hi) ==
    IF lo > hi THEN 0 ELSE RefScore(h[lo]) + RefSum(h, lo + 1, hi)

\* the trend from the sums and sizes of the two slices, with
\* a/b > c/d + 3/10 written over the integers
RefCompare(rsum, rcount, esum, ecount) ==
    IF 10 * rsum * ecount > 10 * esum * rcount + 3 * rcount * ecount
    THEN "Improving"
    ELSE IF 10 * rsum * ecount < 10 * esum * rcount - 3 * rcount * ecount
    THEN "Declining"
    ELSE "Stable"

\* spec 4.2 as written: the window of the last k = min(n, 5) entries in
\* chronological order, "recent" its first min(k, 3) entries, "earlier" the rest
RefTrendChronological(h) ==
    LET n  == Len(h)
        k  == Min(n, 5)
        rc == Min(k, 3)
        lo == n - k + 1
    IN  IF k < 2 THEN "Stable"
        ELSE IF k - rc > 0
        THEN RefCompare(RefSum(h, lo, lo + rc - 1), rc,
                        RefSum(h, lo + rc, n), k - rc)
        ELSE "Stable"

\* the same computation over the window most recent entry first: "recent" is
\* the last min(k, 3) entries of the history, "earlier" the entries before them
RefTrendMostRecentFirst(h) ==
    LET n  == Len(h)
        k  == Min(n, 5)
        rc == Min(k, 3)
        lo == n - k + 1
    IN  IF k < 2 THEN "Stable"
        ELSE IF k - rc > 0
        THEN RefCompare(RefSum(h, n - rc + 1, n), rc,
                        RefSum(h, lo, n - rc), k - rc)
        ELSE "Stable"

\* C2 as stated: get_recent_emotion_trend equals the reference computation of
\* spec 4.2 over the window in chronological order.
C2_TrendIsChronologicalReference ==
    call.op = "get_recent_emotion_trend" =>
        call.val = RefTrendChronological(emotion_history)

\* C2 as amended: get_recent_emotion_trend equals the reference computation
\* over the up-to-5 most recent classifications taken most recent first.
C2_TrendIsMostRecentFirstReference ==
    call.op = "get_recent_emotion_trend" =>
        call.val = RefTrendMostRecentFirst(emotion_history)

\* a history on which the two orders of the window give different trends
C2_Witness ==
    /\ call.op = "get_recent_emotion_trend"
    /\ Len(emotion_history) = 5
    /\ RefTrendChronological(emotion_history) # call.val
    /\ call.val = "Improving"

\* the sentiments of the last n entries of a history, oldest first
LastSentiments(h, n) ==
    [i \in 1..Min(n, Len(h)) |-> h[Len(h) - Min(n, Len(h)) + i].sentiment]

\* C3: whenever the 5 most recent entries are Negative, Negative, Positive,
\* Positive, Positive in chronological order (as after 3 Negative then 3
\* Positive classifications on a new manager), the trend is Improving.
C3_NegativeThenPositiveImproving ==
    (/\ call.op = "get_recent_emotion_trend"
     /\ LastSentiments(emotion_history, 5) =
            <<"Negative", "Negative", "Positive", "Positive", "Positive">>)
    => call.val = "Improving"

\* the trend read after 3 Negative then 3 Positive classifications
C3_Witness ==
    /\ call.op = "get_recent_emotion_trend"
    /\ LastSentiments(emotion_history, 6) =
           <<"Negative", "Negative", "Negative",
             "Positive", "Positive", "Positive">>
    /\ messages = << >>

\* the table of spec 4.3
StrategyTable ==
    [s \in Sentiment |->
        [t \in EmotionTrend |->
            IF s = "Positive" THEN "Cheerful"
            ELSE IF s = "Neutral" THEN "Neutral"
            ELSE IF t = "Declining" THEN "Empathetic"
            ELSE IF t = "Stable" THEN "Encouraging"
            ELSE "Neutral"]]

\* C4: select_strategy returns, for every sentiment, trend and confidence, the
\* strategy of the table, which is a ResponseStrategy and does not depend on
\* the confidence.
C4_SelectMatchesTable ==
    call.op = "select_strategy" =>
        /\ call.val \in ResponseStrategy
        /\ call.val = StrategyTable[call.emotion.sentiment][call.trend]
        /\ \A c \in SelectorConfidences :
              select_strategy([call.emotion EXCEPT !.confidence = c],
                              call.trend) = call.val

\* the fallback row of the table, at an out-of-the-ordinary confidence
C4_Witness ==
    /\ call.op = "select_strategy"
    /\ call.emotion = [sentiment |-> "Negative", confidence |-> 0]
    /\ call.trend = "Stable"
    /\ call.val = "Encouraging"

\* C5: every update_emotion call appends exactly its classification at the
\* end of emotion_history, whatever the message log is, and no other operation
\* changes emotion_history.
C5_HistoryIsCallSequence ==
    [][IF call'.op = "update_emotion"
       THEN emotion_history' = Append(emotion_history, call'.emotion)
       ELSE emotion_history' = emotion_history]_vars

\* classifications recorded with nothing to attach them to: the log is empty
\* or ends with an Assistant message
C5_Witness ==
    /\ call.op = "update_emotion"
    /\ Len(emotion_history) = 2
    /\ \/ messages = << >>
       \/ messages[Len(messages)].role = "Assistant"

\* C6: the log of a new manager is empty; add_message(role, content) appends
\* one message with that role and content and no emotion after the messages
\* already there, which stay as they were, and get_history returns the log.
C6_AddMessageAppends ==
    /\ messages = << >>
    /\ [][/\ call'.op = "add_message" =>
                /\ Len(messages') = Len(messages) + 1
                /\ SubSeq(messages', 1, Len(messages)) = messages
                /\ messages'[Len(messages')].role = call'.role
                /\ messages'[Len(messages')].content = call'.content
                /\ messages'[Len(messages')].emotion = None
          /\ call'.op = "get_history" =>
                /\ call'.val = messages
                /\ messages' = messages]_vars

\* the log read right after a second message was appended
C6_Witness ==
    /\ call.op = "get_history"
    /\ Len(call.val) = 2
    /\ call.val[1].role = "User"
    /\ call.val[2].role = "Assistant"
    /\ call.val[1].content # call.val[2].content

\* C7: with fewer than 2 entries in emotion_history the trend is Stable,
\* whatever the sentiment of the single entry.
C7_ShortHistoryStable ==
    (call.op = "get_recent_emotion_trend" /\ Len(emotion_history) < 2)
    => call.val = "Stable"

\* the trend read with one Positive entry recorded
C7_Witness ==
    /\ call.op = "get_recent_emotion_trend"
    /\ Len(emotion_history) = 1
    /\ emotion_history[1].sentiment = "Positive"

\* C8: with 2 or more entries in emotion_history, all of them Neutral, the
\* trend is Stable.
C8_AllNeutralStable ==
    (/\ call.op = "get_recent_emotion_trend"
     /\ Len(emotion_history) >= 2
     /\ \A i \in 1..Len(emotion_history) :
           emotion_history[i].sentiment = "Neutral")
    => call.val = "Stable"

\* the trend read over 5 Neutral entries
C8_Witness ==
    /\ call.op = "get_recent_emotion_trend"
    /\ Len(emotion_history) = 5
    /\ \A i \in 1..5 : emotion_history[i].sentiment = "Neutral"

\* the number of messages the context shows
Shown == Min(Len(messages), 5)

\* the i-th message shown, counted from the oldest of the last 5
ShownMessage(i) == messages[Len(messages) - Shown + i]

RECURSIVE LineStart(_)
\* the number of pieces before the line of the i-th message shown: the header
\* and its newline, then label, separator, content and newline per message
LineStart(i) ==
    IF i = 1 THEN 2
    ELSE LineStart(i - 1) + Len(ShownMessage(i - 1).content) + 3

\* C9: on an empty history the context is the "new conversation" marker and
\* nothing else; otherwise it is the header line followed by the last
\* min(n, 5) messages in chronological order and nothing else, each as its
\* role's label, ": ", its content and a newline.
C9_ContextIsLastFive ==
    call.op = "build_context_prompt" =>
        IF messages = << >>
        THEN call.val = <<"This is a new conversation.">>
        ELSE /\ call.val[1] = "Recent conversation:"
             /\ call.val[2] = "\n"
             /\ Len(call.val) = LineStart(Shown + 1)
             /\ \A i \in 1..Shown :
                   LET m == ShownMessage(i)
                       o == LineStart(i)
                   IN  /\ m.role = "User" => call.val[o + 1] = "User"
                       /\ m.role = "Assistant" => call.val[o + 1] = "Assistant"
                       /\ call.val[o + 2] = ": "
                       /\ SubSeq(call.val, o + 3, o + 2 + Len(m.content))
                              = m.content
                       /\ call.val[o + 3 + Len(m.content)] = "\n"

\* the context of a log of 7 messages whose first two differ from the third
C9_Witness ==
    /\ call.op = "build_context_prompt"
    /\ Len(messages) = 7
    /\ messages[1].role = "User" /\ messages[1].content # << >>
    /\ messages[2].role = "Assistant"
    /\ messages[3].role = "User" /\ messages[3].content = << >>
    /\ messages[7].role = "Assistant" /\ messages[7].content # << >>

\* the context of a new conversation
C9_WitnessEmpty ==
    /\ call.op = "build_context_prompt"
    /\ messages = << >>

\* an error message that reads as a malformed or empty response
LooksMalformed(m) ==
    \E i \in DOMAIN m :
        \/ m[i] = "deserialize"
        \/ /\ i + 1 \in DOMAIN m
           /\ m[i] = "expected " /\ m[i + 1] = "value"

\* C10: analyze returns the extracted classification unchanged when the
\* extraction call succeeds, Ok(Neutral, 0.5) when it fails with an error
\* that reads as a malformed or empty response (its message contains
\* "deserialize" or "expected value"), and an error when it fails otherwise.
C10_AnalyzeDegrades ==
    call.op = "analyze" =>
        IF call.outcome.ok
        THEN call.val = [ok |-> TRUE, val |-> call.outcome.val]
        ELSE IF LooksMalformed(call.outcome.err)
        THEN call.val = [ok |-> TRUE,
                         val |-> [sentiment |-> "Neutral", confidence |-> 5]]
        ELSE call.val.ok = FALSE

\* an "expected value" failure downgraded to the default classification
C10_Witness ==
    /\ call.op = "analyze"
    /\ call.outcome = [ok |-> FALSE, err |-> <<"timeout", "expected ", "value">>]
    /\ call.val.ok

\* a failure that is propagated although its message has both words
C10_WitnessPropagated ==
    /\ call.op = "analyze"
    /\ call.outcome = [ok |-> FALSE, err |-> <<"value", "expected ", "timeout">>]
    /\ ~call.val.ok

\* C12: in every state the manager reaches through add_message and
\* update_emotion, a message that carries an emotion is a User message: no
\* Assistant message has one.
C12_NoAssistantEmotion ==
    \A i \in 1..Len(messages) :
        messages[i].emotion # None => messages[i].role = "User"

\* a classification recorded while the log ends with an Assistant message that
\* follows a tagged User message
C12_Witness ==
    /\ call.op = "update_emotion"
    /\ Len(messages) = 2
    /\ messages[1].role = "User" /\ messages[1].emotion # None
    /\ messages[2].role = "Assistant"
    /\ Len(emotion_history) = 2

\* a message but for its emotion
Unemotional(m) ==
    [role |-> m.role, content |-> m.content, timestamp |-> m.timestamp]

\* C13: update_emotion keeps the number of messages and every message's role,
\* content and timestamp, changes no message but the last, and changes
\* nothing in the log when it is empty or ends with an Assistant message;
\* add_message keeps emotion_history and every message already in the log;
\* get_history and get_recent_emotion_trend change nothing; started_at never
\* changes.
C13_Frames ==
    [][/\ started_at' = started_at
       /\ call'.op = "update_emotion" =>
             /\ Len(messages') = Len(messages)
             /\ \A i \in 1..Len(messages) :
                   /\ Unemotional(messages'[i]) = Unemotional(messages[i])
                   /\ i < Len(messages) => messages'[i] = messages[i]
             /\ (\/ messages = << >>
                 \/ messages[Len(messages)].role = "Assistant")
                => messages' = messages
       /\ call'.op = "add_message" =>
             /\ emotion_history' = emotion_history
             /\ Len(messages') > Len(messages)
             /\ \A i \in 1..Len(messages) : messages'[i] = messages[i]
       /\ call'.op \in {"get_history", "get_recent_emotion_trend"} =>
             /\ messages' = messages
             /\ emotion_history' = emotion_history]_vars

\* a classification recorded while an untagged User message is followed by an
\* Assistant message: it is attached to neither
C13_Witness ==
    /\ call.op = "update_emotion"
    /\ Len(messages) = 2
    /\ messages[1].role = "User" /\ messages[1].emotion = None
    /\ messages[2].role = "Assistant"

\* a manager state that shares with the current one nothing but the
\* sentiments of the last 5 entries of the emotion history: other messages,
\* another started_at, other confidences, no older entries
SameLastFiveSentiments ==
    LET last == LastSentiments(emotion_history, 5)
        other == CHOOSE t \in Timestamps : t # started_at
    IN  [messages |-> <<[role |-> "Assistant", content |-> << >>,
                         timestamp |-> other, emotion |-> None]>>,
         emotion_history |->
             [i \in 1..Len(last) |->
                 [sentiment |-> last[i],
                  confidence |->
                      CHOOSE c \in Confidences :
                          c # emotion_history[Len(emotion_history)
                                              - Len(last) + i].confidence]],
         started_at |-> other]

\* C15: the trend depends only on the sentiments of the last min(len, 5)
\* entries of emotion_history: a state that agrees with the current one on
\* them (with as many entries, or at least 5 on both sides) and differs in the
\* older entries, the confidences, the messages and started_at has the same
\* trend.
C15_TrendDependsOnLastFive ==
    call.op = "get_recent_emotion_trend" =>
        get_recent_emotion_trend(SameLastFiveSentiments) = call.val

\* a non-Stable trend read over 6 entries, the oldest of which is not in the
\* window
C15_Witness ==
    /\ call.op = "get_recent_emotion_trend"
    /\ Len(emotion_history) = 6
    /\ emotion_history[1].sentiment = "Positive"
    /\ emotion_history[2].sentiment = "Negative"
    /\ call.val = "Declining"

\* C16: with 2 or 3 entries in emotion_history the trend is Stable whatever
\* the sentiments; a trend other than Stable is read only with 4 entries or
\* more.
C16_TwoOrThreeStable ==
    call.op = "get_recent_emotion_trend" =>
        /\ Len(emotion_history) \in {2, 3} => call.val = "Stable"
        /\ call.val # "Stable" => Len(emotion_history) >= 4

\* the trend read over Negative, Negative, Positive
C16_Witness ==
    /\ call.op = "get_recent_emotion_trend"
    /\ LastSentiments(emotion_history, 5) = <<"Negative", "Negative", "Positive">>

\* the trend read over 4 entries and not Stable
C16_WitnessFour ==
    /\ call.op = "get_recent_emotion_trend"
    /\ Len(emotion_history) = 4
    /\ call.val = "Improving"

\* a history with Positive and Negative exchanged
Flip(h) ==
    [i \in 1..Len(h) |->
        [h[i] EXCEPT !.sentiment =
            IF @ = "Positive" THEN "Negative"
            ELSE IF @ = "Negative" THEN "Positive" ELSE "Neutral"]]

\* the trend of the opposite direction
Opposite(t) ==
    IF t = "Improving" THEN "Declining"
    ELSE IF t = "Declining" THEN "Improving" ELSE "Stable"

\* C19: the trend of a history with every Positive replaced by Negative and
\* every Negative by Positive is the opposite of the trend of the history:
\* Declining for Improving, Improving for Declining, Stable for Stable.
C19_PolaritySymmetry ==
    call.op = "get_recent_emotion_trend" =>
        get_recent_emotion_trend(
            [State EXCEPT !.emotion_history = Flip(emotion_history)])
          = Opposite(call.val)

\* an Improving trend over a history with all three sentiments in it
C19_Witness ==
    /\ call.op = "get_recent_emotion_trend"
    /\ call.val = "Improving"
    /\ {emotion_history[i].sentiment : i \in 1..Len(emotion_history)} = Sentiment

\* the positions of main at which the process has ended
Ended == {"done", "failed"}

\* the lines that, trimmed, are "quit" or "exit" in some letter case
LeaveLines == {<<"Q", "u", "i", "T", "\n">>,
               <<" ", "e", "x", "i", "t", " ", "\n">>}

\* C11: a failed classification that analyze propagates and a failed
\* generation do not end the session: after either the loop is back at
\* reading the next input; the session ends only from reading, on a line that
\* is "quit" or "exit" or on a terminal I/O error.
C11_FailuresDoNotEndSession ==
    [][/\ (call'.op \in {"analyze", "respond"} /\ ~call'.val.ok)
             => turn'.pc = "read"
       /\ (turn'.pc \in Ended /\ turn.pc \notin Ended) =>
             /\ turn.pc = "read"
             /\ call'.op = "read_line"
             /\ IF call'.result.ok
                THEN turn'.pc = "done" /\ call'.result.line \in LeaveLines
                ELSE turn'.pc = "failed"
       /\ (call'.op = "read_line" /\ call'.result.ok
           /\ call'.result.line \notin LeaveLines) => turn'.pc \notin Ended]_vars

\* back at reading after a generation failure
C11_Witness ==
    /\ call.op = "respond"
    /\ ~call.val.ok
    /\ turn.pc = "read"
    /\ Len(messages) = 1

\* back at reading after a propagated classification failure
C11_WitnessAnalyze ==
    /\ call.op = "analyze"
    /\ ~call.val.ok
    /\ turn.pc = "read"
    /\ Len(messages) = 2

\* the session left on "QuiT"
C11_WitnessDone ==
    /\ turn.pc = "done"
    /\ Len(emotion_history) = 1

\* the steps of a turn in their order: from each position of main, the
\* positions the next step may lead to
TurnOrder ==
    {<<"read", "read">>, <<"read", "analyze">>, <<"read", "done">>,
     <<"read", "failed">>, <<"analyze", "add_user">>, <<"analyze", "read">>,
     <<"add_user", "update_emotion">>, <<"update_emotion", "trend">>,
     <<"trend", "select">>, <<"select", "respond">>,
     <<"respond", "add_assistant">>, <<"respond", "read">>,
     <<"add_assistant", "read">>}

\* C14: a turn runs classify, record the User message, record the
\* classification, compute the trend, select the strategy, generate, record
\* the Assistant reply, in this order, and a line is read only between turns;
\* the trend is computed over an emotion_history that ends with this turn's
\* classification, the strategy is selected from this turn's classification and
\* that trend, and an Assistant message is appended only as the step after a
\* successful generation, with the generated text.
C14_TurnOrder ==
    [][/\ <<turn.pc, turn'.pc>> \in TurnOrder
       /\ call'.op = "read_line" => turn.pc = "read"
       /\ turn.pc = "analyze" =>
             /\ call'.op = "analyze"
             /\ UNCHANGED <<messages, emotion_history>>
       /\ turn.pc = "add_user" =>
             /\ messages' = Append(messages, messages'[Len(messages')])
             /\ messages'[Len(messages')].role = "User"
             /\ messages'[Len(messages')].content = turn.input
             /\ emotion_history' = emotion_history
       /\ turn.pc = "update_emotion" =>
             emotion_history' = Append(emotion_history, turn.emotion)
       /\ turn.pc = "trend" =>
             /\ emotion_history # << >>
             /\ emotion_history[Len(emotion_history)] = turn.emotion
             /\ turn'.trend = RefTrendMostRecentFirst(emotion_history)
             /\ turn'.emotion = turn.emotion
       /\ turn.pc = "select" =>
             turn'.strategy = StrategyTable[turn.emotion.sentiment][turn.trend]
       /\ turn.pc = "respond" =>
             /\ call'.op = "respond"
             /\ call'.preamble = to_prompt(turn.strategy)
             /\ UNCHANGED <<messages, emotion_history>>
       /\ (/\ Len(messages') > Len(messages)
           /\ messages'[Len(messages')].role = "Assistant") =>
             /\ turn.pc = "add_assistant"
             /\ call.op = "respond" /\ call.val.ok
             /\ messages'[Len(messages')].content = call.val.val]_vars

\* a trend that is Improving only because the 4th classification, this
\* turn's, is in the history it is computed over
C14_Witness ==
    /\ turn.pc = "select"
    /\ Len(emotion_history) = 4
    /\ turn.trend = "Improving"
    /\ turn.emotion.sentiment = "Positive"

\* the positions of the User messages of a log, oldest first
RECURSIVE UserPositions(_)
UserPositions(msgs) ==
    IF msgs = << >> THEN << >>
    ELSE LET rest == UserPositions(SubSeq(msgs, 1, Len(msgs) - 1))
         IN  IF msgs[Len(msgs)].role = "User"
             THEN Append(rest, Len(msgs)) ELSE rest

\* C17: between turns of the session loop, emotion_history has as many
\* entries as there are User messages, the k-th User message carries the k-th
\* entry as its emotion, the first message is a User message, no two
\* Assistant messages are adjacent and there are at most as many Assistant
\* messages as User messages.
C17_LoopInvariant ==
    turn.pc = "read" =>
        LET users == UserPositions(messages)
        IN  /\ Len(users) = Len(emotion_history)
            /\ \A k \in 1..Len(users) :
                  k <= Len(emotion_history)
                  /\ messages[users[k]].emotion = Some(emotion_history[k])
            /\ messages # << >> => messages[1].role = "User"
            /\ \A i \in 1..Len(messages) - 1 :
                  ~(messages[i].role = "Assistant"
                    /\ messages[i + 1].role = "Assistant")
            /\ Len(messages) - Len(users) <= Len(users)

\* between turns, after a turn whose generation failed and a complete turn
\* with another classification
C17_Witness ==
    /\ turn.pc = "read"
    /\ Len(messages) = 3
    /\ messages[1].role = "User" /\ messages[2].role = "User"
    /\ messages[3].role = "Assistant"
    /\ messages[1].emotion # messages[2].emotion

\* C18: a classification failure that is propagated leaves messages and
\* emotion_history as they were before the turn (reading the line changed
\* nothing either); a generation failure keeps the User message and the
\* classification the turn recorded, and no Assistant message is appended
\* for that turn: the next message appended is a User message; the trend of
\* every later turn is computed over the whole emotion_history.
C18_FailureEffects ==
    [][/\ call'.op = "read_line" => UNCHANGED <<messages, emotion_history>>
       /\ (call'.op = "analyze" /\ ~call'.val.ok) =>
             /\ UNCHANGED <<messages, emotion_history>>
             /\ call.op = "read_line"
       /\ (call'.op = "respond" /\ ~call'.val.ok) =>
             /\ UNCHANGED <<messages, emotion_history>>
             /\ messages # << >>
             /\ messages[Len(messages)].role = "User"
             /\ messages[Len(messages)].content = turn.input
             /\ messages[Len(messages)].emotion = Some(turn.emotion)
             /\ emotion_history[Len(emotion_history)] = turn.emotion
       /\ (call.op = "respond" /\ ~call.val.ok) =>
             /\ call'.op = "read_line"
             /\ UNCHANGED <<messages, emotion_history>>
       /\ (turn.pc = "read" /\ call.op \in {"analyze", "respond"}) =>
             /\ ~call.val.ok
             /\ UNCHANGED <<messages, emotion_history>>
       /\ call'.op = "get_recent_emotion_trend" =>
             call'.val = RefTrendMostRecentFirst(emotion_history)]_vars

\* a trend that is not Stable thanks to the classification of the turn
\* before, whose generation failed
C18_Witness ==
    /\ turn.pc = "select"
    /\ Len(emotion_history) = 4
    /\ Len(messages) >= 2
    /\ messages[Len(messages) - 1].role = "User"
    /\ messages[Len(messages)].role = "User"
    /\ turn.trend # "Stable"

\* a propagated classification failure after a complete turn
C18_WitnessAnalyze ==
    /\ call.op = "analyze"
    /\ ~call.val.ok
    /\ Len(messages) = 2
    /\ Len(emotion_history) = 1

=============================================================================
